---- MODULE Spec2Model ----
(***************************************************************************)
(* Model of the meshtastic-docker tooling: the build command (build.js, in *)
(* its sequential and its batched version) and the shell command (bash.js) *)
(* together with the parts of git, the container runtime and the semver    *)
(* library they rely on, and the dependency-install step of the            *)
(* Dockerfiles the image build executes.                                   *)
(*                                                                         *)
(* Strings are sequences of one-character strings, so that the regular     *)
(* expressions and the semver grammar of the code are computed, character  *)
(* by character, as the code computes them.                                *)
(***************************************************************************)
EXTENDS Naturals, Integers, Sequences, FiniteSets, TLC

VARIABLES
    cmd,          \* the command the user ran: "build" or "bash"
    argv,         \* its positional argument (process.argv[2]); <<>> when absent
    script,       \* the build script `bun run build` runs: "sequential" or "batches"
    allPatches,   \* the --all-patches option of the build command
    gitOk,        \* whether `git -C firmware tag` can run
    gitTags,      \* the tags it prints, in git's order
    imageStore,   \* the container runtime's local images, newest first
    bpc,          \* build command: "idle", "fetch", "building", "exited"
    bargv,        \* build command: its positional argument
    plan,         \* build command: filteredVersions
    results,      \* build command: the BuildResults collected so far
    running,      \* build command: plan indices whose child process is alive
    settled,      \* build command: results of the current batch, by plan index
    attempts,     \* history: plan indices in the order their child was spawned
    bexit,        \* build command: exit status, -1 while it runs
    spc,          \* shell command: "idle", "fetch", "lookup1", "building",
                  \*   "lookup2", "shell", "exited"
    target,       \* shell command: the version it looks up
    imageToUse,   \* shell command: the image found, <<>> for null
    lookups,      \* history: outcomes of the image lookups, in order
    builds,       \* history: number of `bun run build` invocations by the shell
    sexit,        \* shell command: exit status, -1 while it runs
    tagsFailed,   \* history: a tag listing failed (SourceUnavailable reported)
    shellRuns,    \* history: number of interactive sessions spawned
    shellEnd,     \* history: how the interactive session ended
    dockerfile,   \* the Dockerfile in the build context: "part_000", "Dockerfile"
                  \*   or "part_003"
    docker        \* the image build of one plan entry, instruction by instruction

vars == <<cmd, argv, script, allPatches, gitOk, gitTags, imageStore, bpc, bargv,
          plan, results, running, settled, attempts, bexit, spc, target,
          imageToUse, lookups, builds, sexit, tagsFailed, shellRuns, shellEnd,
          dockerfile, docker>>

-----------------------------------------------------------------------------
(* Characters and strings *)

Digits == <<"0", "1", "2", "3", "4", "5", "6", "7", "8", "9">>

Lower == <<"a", "b", "c", "d", "e", "f", "g", "h", "i", "j", "k", "l", "m",
           "n", "o", "p", "q", "r", "s", "t", "u", "v", "w", "x", "y", "z">>

Upper == <<"A", "B", "C", "D", "E", "F", "G", "H", "I", "J", "K", "L", "M",
           "N", "O", "P", "Q", "R", "S", "T", "U", "V", "W", "X", "Y", "Z">>

Range(s) == {s[i] : i \in DOMAIN s}

DigitChars == Range(Digits)

LetterChars == Range(Lower) \cup Range(Upper)

IsDigit(c) == c \in DigitChars

IsLetter(c) == c \in LetterChars

\* the character class [a-zA-Z0-9.-] of both regular expressions
IsTagChar(c) == IsDigit(c) \/ IsLetter(c) \/ c = "." \/ c = "-"

\* the character class [a-zA-Z0-9-] of semver's prerelease identifiers
IsIdChar(c) == IsDigit(c) \/ IsLetter(c) \/ c = "-"

IndexIn(c, s) == CHOOSE i \in DOMAIN s : s[i] = c

\* UTF-16 code unit of a character (JavaScript compares strings by these)
Ord(c) ==
    IF IsDigit(c) THEN 47 + IndexIn(c, Digits)
    ELSE IF \E i \in DOMAIN Upper : Upper[i] = c THEN 64 + IndexIn(c, Upper)
    ELSE IF \E i \in DOMAIN Lower : Lower[i] = c THEN 96 + IndexIn(c, Lower)
    ELSE IF c = "-" THEN 45
    ELSE IF c = "." THEN 46
    ELSE IF c = "/" THEN 47
    ELSE IF c = ":" THEN 58
    ELSE 62

AllDigits(s) == \A i \in DOMAIN s : IsDigit(s[i])

\* parseInt(s, 10) and Number(s) of a non-empty string of digits
RECURSIVE parseInt(_)
parseInt(s) ==
    IF s = <<>> THEN 0
    ELSE 10 * parseInt(SubSeq(s, 1, Len(s) - 1)) + (IndexIn(s[Len(s)], Digits) - 1)

\* String(n) of a natural number
RECURSIVE NumToString(_)
NumToString(n) ==
    IF n < 10 THEN <<Digits[n + 1]>>
    ELSE NumToString(n \div 10) \o <<Digits[(n % 10) + 1]>>

\* a < b, a = b, a > b of two JavaScript strings: -1, 0, 1
RECURSIVE StrCmp(_, _)
StrCmp(a, b) ==
    IF a = <<>> /\ b = <<>> THEN 0
    ELSE IF a = <<>> THEN -1
    ELSE IF b = <<>> THEN 1
    ELSE IF Ord(a[1]) < Ord(b[1]) THEN -1
    ELSE IF Ord(a[1]) > Ord(b[1]) THEN 1
    ELSE StrCmp(Tail(a), Tail(b))

\* s.split(sep) for a one-character separator
RECURSIVE Split(_, _)
Split(s, sep) ==
    IF \A i \in DOMAIN s : s[i] # sep THEN <<s>>
    ELSE LET k == CHOOSE i \in DOMAIN s :
                      s[i] = sep /\ \A j \in 1..(i - 1) : s[j] # sep
         IN  <<SubSeq(s, 1, k - 1)>> \o Split(SubSeq(s, k + 1, Len(s)), sep)

\* length of the longest prefix of s whose characters all satisfy the class
RECURSIVE DigitRun(_)
DigitRun(s) ==
    IF s = <<>> \/ ~IsDigit(s[1]) THEN 0 ELSE 1 + DigitRun(Tail(s))

RECURSIVE TagCharRun(_)
TagCharRun(s) ==
    IF s = <<>> \/ ~IsTagChar(s[1]) THEN 0 ELSE 1 + TagCharRun(Tail(s))

Drop(s, n) == SubSeq(s, n + 1, Len(s))

-----------------------------------------------------------------------------
(* The semver library, as far as the scripts use it.  Strings of the model  *)
(* hold no "+", no blank and stay far below 256 characters and 2^53, so    *)
(* build metadata, trimming and the length limits play no part.            *)

\* 0|[1-9]\d*
IsNumericId(s) == s # <<>> /\ AllDigits(s) /\ (Len(s) = 1 \/ s[1] # "0")

\* a prerelease identifier: 0|[1-9]\d* or \d*[a-zA-Z-][a-zA-Z0-9-]*
IsPrereleaseId(s) ==
    /\ s # <<>>
    /\ \A i \in DOMAIN s : IsIdChar(s[i])
    /\ (AllDigits(s) => IsNumericId(s))

FirstDash(s) ==
    IF \A i \in DOMAIN s : s[i] # "-" THEN 0
    ELSE CHOOSE i \in DOMAIN s : s[i] = "-" /\ \A j \in 1..(i - 1) : s[j] # "-"

NoSemVer == [valid |-> FALSE, major |-> 0, minor |-> 0, patch |-> 0, prerelease |-> <<>>]

\* new SemVer(s): the strict grammar ^v?MAJOR.MINOR.PATCH(-PRERELEASE)?$ ;
\* valid = FALSE stands for the TypeError "Invalid Version"
SemVer(s) ==
    LET body == IF s # <<>> /\ s[1] = "v" THEN Tail(s) ELSE s
        dash == FirstDash(body)
        main == IF dash = 0 THEN body ELSE SubSeq(body, 1, dash - 1)
        pre  == IF dash = 0 THEN <<>> ELSE Split(Drop(body, dash), ".")
        nums == Split(main, ".")
    IN  IF /\ Len(nums) = 3
           /\ \A i \in 1..3 : IsNumericId(nums[i])
           /\ \A i \in DOMAIN pre : IsPrereleaseId(pre[i])
        THEN [valid |-> TRUE, major |-> parseInt(nums[1]), minor |-> parseInt(nums[2]),
              patch |-> parseInt(nums[3]), prerelease |-> pre]
        ELSE NoSemVer

\* semver.valid(s), as a truth value
semverValid(s) == SemVer(s).valid

\* semver.parse(s)
semverParse(s) == SemVer(s)

NumCmp(a, b) == IF a < b THEN -1 ELSE IF a > b THEN 1 ELSE 0

\* compareIdentifiers: numeric identifiers compare as numbers and sort below
\* the others, which compare as strings
compareIdentifiers(a, b) ==
    IF AllDigits(a) /\ AllDigits(b) THEN NumCmp(parseInt(a), parseInt(b))
    ELSE IF AllDigits(a) THEN -1
    ELSE IF AllDigits(b) THEN 1
    ELSE StrCmp(a, b)

RECURSIVE comparePreIds(_, _)
comparePreIds(p, q) ==
    IF p = <<>> /\ q = <<>> THEN 0
    ELSE IF q = <<>> THEN 1
    ELSE IF p = <<>> THEN -1
    ELSE IF p[1] = q[1] THEN comparePreIds(Tail(p), Tail(q))
    ELSE compareIdentifiers(p[1], q[1])

\* SemVer.comparePre: a version without prerelease is above one with
comparePre(a, b) ==
    IF a.prerelease # <<>> /\ b.prerelease = <<>> THEN -1
    ELSE IF a.prerelease = <<>> /\ b.prerelease # <<>> THEN 1
    ELSE comparePreIds(a.prerelease, b.prerelease)

\* SemVer.compare of two parsed versions
compareSemVer(a, b) ==
    IF a.major # b.major THEN NumCmp(a.major, b.major)
    ELSE IF a.minor # b.minor THEN NumCmp(a.minor, b.minor)
    ELSE IF a.patch # b.patch THEN NumCmp(a.patch, b.patch)
    ELSE comparePre(a, b)

\* semver.compare(a, b) throws when either string is no version
semverCompareThrows(a, b) == ~SemVer(a).valid \/ ~SemVer(b).valid

\* semver.compare(a, b) of two version strings
semverCompare(a, b) == compareSemVer(SemVer(a), SemVer(b))

SV(ma, mi, pa, pre) ==
    [valid |-> TRUE, major |-> ma, minor |-> mi, patch |-> pa, prerelease |-> pre]

IsX(s) == s = <<"x">> \/ s = <<"X">> \/ s = <<"*">>

\* new Range(r).set[0] for the range forms the model passes to the build
\* command: a full version (=), ">" and a full version, and the x-ranges
\* "*", M, M.x, M.m, M.m.x.  <<>> stands for "Invalid SemVer Range"; every
\* other string of the model ("latest") is one semver rejects.
RangeComparators(r) ==
    LET gt   == r # <<>> /\ r[1] = ">"
        body == IF gt THEN Tail(r) ELSE r
        p    == Split(IF body # <<>> /\ body[1] = "v" THEN Tail(body) ELSE body, ".")
    IN  IF SemVer(body).valid
        THEN <<[op |-> IF gt THEN ">" ELSE "=", semver |-> SemVer(body)]>>
        ELSE IF gt THEN <<>>
        ELSE IF Len(p) = 1 /\ IsX(p[1])
        THEN <<[op |-> ">=", semver |-> SV(0, 0, 0, <<>>)]>>
        ELSE IF IsNumericId(p[1]) /\ (Len(p) = 1 \/ (Len(p) \in 2..3 /\ IsX(p[2])))
        THEN <<[op |-> ">=", semver |-> SV(parseInt(p[1]), 0, 0, <<>>)],
               [op |-> "<", semver |-> SV(parseInt(p[1]) + 1, 0, 0, <<<<"0">>>>)]>>
        ELSE IF /\ Len(p) \in 2..3 /\ IsNumericId(p[1]) /\ IsNumericId(p[2])
                /\ (Len(p) = 3 => IsX(p[3]))
        THEN <<[op |-> ">=", semver |-> SV(parseInt(p[1]), parseInt(p[2]), 0, <<>>)],
               [op |-> "<", semver |-> SV(parseInt(p[1]), parseInt(p[2]) + 1, 0, <<<<"0">>>>)]>>
        ELSE <<>>

\* Comparator.test
ComparatorTest(c, v) ==
    LET k == compareSemVer(v, c.semver)
    IN  CASE c.op = "="  -> k = 0
          [] c.op = ">"  -> k = 1
          [] c.op = ">=" -> k >= 0
          [] c.op = "<"  -> k = -1

\* semver.satisfies(version, range): every comparator holds, and a version
\* with a prerelease needs a comparator with a prerelease on the same
\* major.minor.patch; an invalid range satisfies nothing
semverSatisfies(version, range) ==
    LET v  == SemVer(version)
        cs == RangeComparators(range)
    IN  /\ v.valid
        /\ cs # <<>>
        /\ \A i \in DOMAIN cs : ComparatorTest(cs[i], v)
        /\ v.prerelease # <<>> =>
              \E i \in DOMAIN cs :
                  /\ cs[i].semver.prerelease # <<>>
                  /\ cs[i].semver.major = v.major
                  /\ cs[i].semver.minor = v.minor
                  /\ cs[i].semver.patch = v.patch

-----------------------------------------------------------------------------
(* Version catalog and version selector (build.js, bash.js) *)

BUILD_NUM == 1

MAX_PARALLEL == 3

\* IMAGE_NAME of bash.js
IMAGE_NAME == "meshtastic-docker"

\* IMAGE_NAME of the build script: the sequential script tags its images
\* under another repository name than the batched one
BuildImageName(s) ==
    IF s = "sequential" THEN "benallfree/meshtastic-docker" ELSE "meshtastic-docker"

\* length of the match of /^(\d+\.\d+\.\d+(?:-[a-zA-Z0-9.-]+)?)/ in s, 0 when
\* there is none; every quantifier is greedy and no backtracking can gain
MatchVersionPrefix(s) ==
    LET d1 == DigitRun(s)
        s2 == Drop(s, d1 + 1)
        d2 == DigitRun(s2)
        s3 == Drop(s2, d2 + 1)
        d3 == DigitRun(s3)
        r  == Drop(s3, d3)
        n  == d1 + 1 + d2 + 1 + d3
    IN  IF /\ d1 > 0 /\ Len(s) > d1 /\ s[d1 + 1] = "."
           /\ d2 > 0 /\ Len(s2) > d2 /\ s2[d2 + 1] = "."
           /\ d3 > 0
        THEN IF r # <<>> /\ r[1] = "-" /\ TagCharRun(Tail(r)) > 0
             THEN n + 1 + TagCharRun(Tail(r))
             ELSE n
        ELSE 0

\* the .map() callback of getAllValidVersions: strip one leading "v", keep
\* the matched version part, or the whole rest when nothing matches
ExtractVersion(tag) ==
    LET version == IF tag # <<>> /\ tag[1] = "v" THEN Tail(tag) ELSE tag
        n       == MatchVersionPrefix(version)
    IN  [tag |-> tag, version |-> IF n > 0 THEN SubSeq(version, 1, n) ELSE version]

\* a comparator with its arguments the other way round
DescCompareAscending(a, b) == semverCompare(a.version, b.version)

\* the comparator of getAllValidVersions: semver.compare(b.version, a.version)
DescCompare(a, b) == semverCompare(b.version, a.version)

\* an insertion that puts x before the elements that compare equal to it
InsertDescUnstable(sorted, x) ==
    LET later == {i \in DOMAIN sorted : DescCompare(sorted[i], x) >= 0}
        k     == IF later = {} THEN Len(sorted) + 1
                 ELSE CHOOSE i \in later : \A j \in later : i <= j
    IN  SubSeq(sorted, 1, k - 1) \o <<x>> \o SubSeq(sorted, k, Len(sorted))

\* insert x behind every element that does not have to come after it
InsertDesc(sorted, x) ==
    LET later == {i \in DOMAIN sorted : DescCompare(sorted[i], x) > 0}
        k     == IF later = {} THEN Len(sorted) + 1
                 ELSE CHOOSE i \in later : \A j \in later : i <= j
    IN  SubSeq(sorted, 1, k - 1) \o <<x>> \o SubSeq(sorted, k, Len(sorted))

\* Array.prototype.sort with that comparator (a stable sort)
RECURSIVE SortDesc(_)
SortDesc(entries) ==
    IF entries = <<>> THEN <<>>
    ELSE InsertDesc(SortDesc(SubSeq(entries, 1, Len(entries) - 1)), entries[Len(entries)])

\* a fetchTags whose catch returns an empty list instead of throwing
fetchTagsSwallowed(ok, tags) == [threw |-> FALSE, tags |-> IF ok THEN tags ELSE <<>>]

\* fetchTags: the tags git prints, or the error thrown when git cannot run
fetchTags(ok, tags) == [threw |-> ~ok, tags |-> IF ok THEN tags ELSE <<>>]

getAllValidVersions(tags) ==
    LET mapped == [i \in DOMAIN tags |-> ExtractVersion(tags[i])]
    IN  SortDesc(SelectSeq(mapped, LAMBDA e : semverValid(e.version)))

filterTagsBySemver(tags, minVersion) ==
    SelectSeq(getAllValidVersions(tags), LAMBDA e : semverSatisfies(e.version, minVersion))

\* a getLatestTag that trusts the order of the tag list: the first tag with
\* a valid version
getLatestTagUnsorted(tags) ==
    LET mapped == [i \in DOMAIN tags |-> ExtractVersion(tags[i])]
        valid  == SelectSeq(mapped, LAMBDA e : semverValid(e.version))
    IN  IF Len(valid) > 0 THEN <<valid[1]>> ELSE <<>>

\* getLatestTag of build.js: a list of at most one entry
getLatestTag(tags) ==
    LET validVersions == getAllValidVersions(tags)
    IN  IF Len(validVersions) > 0 THEN <<validVersions[1]>> ELSE <<>>

MinorKey(version) == <<semverParse(version).major, semverParse(version).minor>>

\* a collapse that keeps every entry
getLatestPatchPerMinorKeepAll(versions) == versions

\* keep the first entry of every major.minor
RECURSIVE getLatestPatchPerMinor(_)
getLatestPatchPerMinor(versions) ==
    IF versions = <<>> THEN <<>>
    ELSE LET init == SubSeq(versions, 1, Len(versions) - 1)
             last == versions[Len(versions)]
             kept == getLatestPatchPerMinor(init)
         IN  IF ~semverParse(last.version).valid THEN kept
             ELSE IF \E i \in DOMAIN init :
                        /\ semverParse(init[i].version).valid
                        /\ MinorKey(init[i].version) = MinorKey(last.version)
                  THEN kept
                  ELSE Append(kept, last)

Latest == <<"l", "a", "t", "e", "s", "t">>

\* filteredVersions of the build command's main: the sequential script
\* collapses a range to the latest patch per minor unless --all-patches is
\* given, the batched script has no such step
SelectVersions(s, arg, all, tags) ==
    LET semverArg == IF arg = <<>> THEN Latest ELSE arg
    IN  IF semverArg = Latest THEN getLatestTag(tags)
        ELSE IF s = "sequential" /\ ~all
             THEN getLatestPatchPerMinor(filterTagsBySemver(tags, semverArg))
             ELSE filterTagsBySemver(tags, semverArg)

\* imageTag of buildImage: `v${version}-${buildNum}`
ImageTag(version, buildNum) == <<"v">> \o version \o <<"-">> \o NumToString(buildNum)

\* the image `-t ${IMAGE_NAME}:${imageTag}` names
FullTag(s, version, buildNum) ==
    [repo |-> BuildImageName(s), tag |-> ImageTag(version, buildNum)]

-----------------------------------------------------------------------------
(* Image locator (bash.js) *)

LastDash(s) ==
    IF \A i \in DOMAIN s : s[i] # "-" THEN 0
    ELSE CHOOSE i \in DOMAIN s : s[i] = "-" /\ \A j \in (i + 1)..Len(s) : s[j] # "-"

\* null, as an image and as a parsed line
NoImage == [repo |-> "", tag |-> <<>>]

NoParse == [image |-> NoImage, version |-> <<>>, buildNum |-> 0]

\* the .map() callback of findImageForVersion on the line `${repo}:${tag}`:
\* /^meshtastic-docker:v(\d+\.\d+\.\d+(?:-[a-zA-Z0-9.-]+)?)-(\d+)$/ ; the build
\* number holds no "-", so it starts behind the last one.
ParseImageLine(img) ==
    LET r == Tail(img.tag)
        k == LastDash(r)
        v == SubSeq(r, 1, k - 1)
        n == Drop(r, k)
    IN  IF /\ img.repo = IMAGE_NAME
           /\ img.tag # <<>> /\ img.tag[1] = "v"
           /\ k > 1 /\ n # <<>> /\ AllDigits(n)
           /\ MatchVersionPrefix(v) = Len(v)
        THEN [image |-> img, version |-> v, buildNum |-> parseInt(n)]
        ELSE NoParse

\* the comparator of findImageForVersion
ImageCompare(a, b) ==
    IF semverCompare(b.version, a.version) # 0 THEN semverCompare(b.version, a.version)
    ELSE b.buildNum - a.buildNum

InsertImage(sorted, x) ==
    LET later == {i \in DOMAIN sorted : ImageCompare(sorted[i], x) > 0}
        k     == IF later = {} THEN Len(sorted) + 1
                 ELSE CHOOSE i \in later : \A j \in later : i <= j
    IN  SubSeq(sorted, 1, k - 1) \o <<x>> \o SubSeq(sorted, k, Len(sorted))

RECURSIVE SortImages(_)
SortImages(images) ==
    IF images = <<>> THEN <<>>
    ELSE InsertImage(SortImages(SubSeq(images, 1, Len(images) - 1)), images[Len(images)])

\* what `docker images --format "{{.Repository}}:{{.Tag}}" meshtastic-docker`
\* prints: the local images of that repository
ListImages(store) == SelectSeq(store, LAMBDA img : img.repo = IMAGE_NAME)

\* the parsed images, before sorting
ParsedImages(store) ==
    LET lines == ListImages(store)
    IN  SelectSeq([i \in DOMAIN lines |-> ParseImageLine(lines[i])],
                  LAMBDA p : p # NoParse)

\* sorting two or more images compares each with another one, and
\* semver.compare throws on a version that is none
SortThrows(images) ==
    Len(images) >= 2 /\ \E i \in DOMAIN images : ~semverValid(images[i].version)

\* the value the try block returns
LocateSorted(images, version) ==
    LET matching == SelectSeq(images, LAMBDA img : img.version = version)
    IN  IF version # <<>>
        THEN IF matching # <<>> THEN matching[1].image ELSE NoImage
        ELSE IF Len(images) > 0 THEN images[1].image ELSE NoImage

\* an error thrown out of an awaited call
Thrown == [repo |-> "<thrown>", tag |-> <<>>]

\* the try block of findImageForVersion; version <<>> is a falsy argument,
\* listed = FALSE is a failing `docker images`
LocateOrThrow(listed, store, version) ==
    IF ~listed \/ SortThrows(ParsedImages(store)) THEN Thrown
    ELSE LocateSorted(SortImages(ParsedImages(store)), version)

\* a findImageForVersion without its try/catch
findImageForVersionUncaught(listed, store, version) ==
    LocateOrThrow(listed, store, version)

\* findImageForVersion(version): the catch turns every error into null
findImageForVersion(listed, store, version) ==
    IF LocateOrThrow(listed, store, version) = Thrown THEN NoImage
    ELSE LocateOrThrow(listed, store, version)

-----------------------------------------------------------------------------
(* The inputs of the model *)

\* longest tag list of a build command run by the user
MaxTags == 4

\* longest tag list of a shell command, which explores the build command
\* for every local store and every outcome of its lookups
MaxShellTags == 2

\* most images in the local store when a command starts

MaxImages == 2

\* tags of the firmware clone, in the order of `git tag --sort=-version:refname`
TagMaster ==
    << <<"v", "2", ".", "1", "0", ".", "0">>,
       <<"v", "2", ".", "7", ".", "1", "6", ".", "a", "5">>,
       <<"v", "2", ".", "7", ".", "1", "6", "-", "r", "c", "1">>,
       <<"v", "2", ".", "7", ".", "1", "6">>,
       <<"v", "2", ".", "6", ".", "1">>,
       <<"n", "i", "g", "h", "t", "l", "y">> >>

\* local images, in the order `docker images` lists them
ImageMaster ==
    << [repo |-> "meshtastic-docker", tag |-> <<"l", "a", "t", "e", "s", "t">>],
       [repo |-> "meshtastic-docker", tag |-> <<"v", "2", ".", "7", ".", "1", "6", "-", "2">>],
       [repo |-> "meshtastic-docker", tag |-> <<"v", "2", ".", "1", "0", ".", "0", "-", "1">>],
       [repo |-> "meshtastic-docker", tag |-> <<"v", "2", ".", "7", ".", "1", "6", "-", "1">>],
       [repo |-> "meshtastic-docker", tag |-> <<"v", "2", ".", "0", "7", ".", "1", "6", "-", "1">>] >>

\* the subsequences of s that keep the indices in ks
Pick(s, ks) ==
    LET F[n \in 0..Len(s)] ==
            IF n = 0 THEN <<>>
            ELSE IF n \in ks THEN Append(F[n - 1], s[n]) ELSE F[n - 1]
    IN  F[Len(s)]

SubSeqs(s, max) == {Pick(s, ks) : ks \in {k \in SUBSET DOMAIN s : Cardinality(k) <= max}}

Args ==
    { <<>>,
      <<"2", ".", "7", ".", "1", "6">>,
      <<"2", ".", "x">> }

\* how a child process ends: an exit code, a signal (the close event carries
\* the code null) or a failure to spawn (the error event)
ExitCodes == {0, 1, 2}

ChildEnds ==
    [kind : {"exit"}, code : ExitCodes] \cup
    {[kind |-> "signal", code |-> 0], [kind |-> "error", code |-> 0]}

BuildEnds == {e \in ChildEnds : e.code \in {0, 1}}

\* no image build has been looked into
NoDocker == [entry |-> 0, pc |-> "idle", pos |-> 0, status |-> 0, installs |-> <<>>, code |-> -1]

-----------------------------------------------------------------------------
(* The build command (build.js) *)

\* what the close and error handlers of buildImage resolve the promise with
BuildResult(entry, end) ==
    [version  |-> entry.version,
     imageTag |-> ImageTag(entry.version, BUILD_NUM),
     success  |-> end.kind = "exit" /\ end.code = 0,
     error    |-> IF end.kind = "exit" /\ end.code = 0 THEN ""
                  ELSE IF end.kind = "exit" THEN "Exit code: 1"
                  ELSE IF end.kind = "signal" THEN "Exit code: null"
                  ELSE "spawn error"]

\* a build that exits 0 has tagged its image in the local store
StoreAfter(store, entry, end) ==
    LET img == FullTag(script, entry.version, BUILD_NUM)
    IN  IF end.kind = "exit" /\ end.code = 0
        THEN <<img>> \o SelectSeq(store, LAMBDA i : i # img)
        ELSE store

\* a summary that looks at the last result only
SummaryExitLastOnly(rs) == IF rs # <<>> /\ ~rs[Len(rs)].success THEN 1 ELSE 0

\* the exit status after the summary: process.exit(1) when a build failed
SummaryExit(rs) == IF \E i \in DOMAIN rs : ~rs[i].success THEN 1 ELSE 0

Min(a, b) == IF a <= b THEN a ELSE b

\* an orchestrator that stops at the first failed build
NextBatchStopOnFailure(s, rs, n) ==
    IF \E i \in DOMAIN rs : ~rs[i].success THEN {}
    ELSE IF s = "sequential" THEN (Len(rs) + 1)..Min(Len(rs) + 1, n)
    ELSE (Len(rs) + 1)..Min(Len(rs) + MAX_PARALLEL, n)

\* the plan indices the orchestrator spawns next, with the results rs
\* collected so far, of a plan of n entries: the next one for
\* buildSequentially, the next MAX_PARALLEL for buildInBatches
NextBatch(s, rs, n) ==
    IF s = "sequential" THEN (Len(rs) + 1)..Min(Len(rs) + 1, n)
    ELSE (Len(rs) + 1)..Min(Len(rs) + MAX_PARALLEL, n)

Ascending(set) ==
    LET F[k \in SUBSET set] ==
            IF k = {} THEN <<>>
            ELSE LET m == CHOOSE x \in k : \A y \in k : x >= y
                 IN  Append(F[k \ {m}], m)
    IN  F[set]

\* main up to the first spawn: fetchTags throws and main().catch exits 1
BuildTagsFail ==
    /\ bpc = "fetch"
    /\ fetchTags(gitOk, gitTags).threw
    /\ bpc' = "exited"
    /\ bexit' = 1
    /\ tagsFailed' = TRUE
    /\ UNCHANGED <<dockerfile, docker>>
    /\ UNCHANGED <<cmd, argv, script, allPatches, gitOk, gitTags, imageStore, bargv,
                   plan, results, running, settled, attempts, spc, target,
                   imageToUse, lookups, builds, sexit, shellRuns, shellEnd>>

\* a main that treats an empty plan as a failure
BuildNothingAsFailure ==
    /\ bpc = "fetch"
    /\ ~fetchTags(gitOk, gitTags).threw
    /\ SelectVersions(script, bargv, allPatches, fetchTags(gitOk, gitTags).tags) = <<>>
    /\ bpc' = "exited"
    /\ bexit' = 1
    /\ UNCHANGED <<dockerfile, docker>>
    /\ UNCHANGED <<cmd, argv, script, allPatches, gitOk, gitTags, imageStore, bargv,
                   plan, results, running, settled, attempts, spc, target,
                   imageToUse, lookups, builds, sexit, tagsFailed, shellRuns, shellEnd>>

\* main returns without building: no valid tag, or no version matches
BuildNothing ==
    /\ bpc = "fetch"
    /\ ~fetchTags(gitOk, gitTags).threw
    /\ SelectVersions(script, bargv, allPatches, fetchTags(gitOk, gitTags).tags) = <<>>
    /\ bpc' = "exited"
    /\ bexit' = 0
    /\ UNCHANGED <<dockerfile, docker>>
    /\ UNCHANGED <<cmd, argv, script, allPatches, gitOk, gitTags, imageStore, bargv,
                   plan, results, running, settled, attempts, spc, target,
                   imageToUse, lookups, builds, sexit, tagsFailed, shellRuns, shellEnd>>

\* main calls the orchestrator, which spawns its first child or batch
BuildStart ==
    /\ bpc = "fetch"
    /\ ~fetchTags(gitOk, gitTags).threw
    /\ SelectVersions(script, bargv, allPatches, fetchTags(gitOk, gitTags).tags) # <<>>
    /\ plan' = SelectVersions(script, bargv, allPatches, fetchTags(gitOk, gitTags).tags)
    /\ bpc' = "building"
    /\ running' = NextBatch(script, <<>>, Len(plan'))
    /\ attempts' = Ascending(running')
    /\ UNCHANGED <<dockerfile, docker>>
    /\ UNCHANGED <<cmd, argv, script, allPatches, gitOk, gitTags, imageStore, bargv,
                   results, settled, bexit, spc, target,
                   imageToUse, lookups, builds, sexit, tagsFailed, shellRuns, shellEnd>>

\* buildSequentially: the child of entry i ends, its result is pushed, and
\* the loop spawns the next child or returns to main's summary
SeqChildEnds(i, end) ==
    /\ bpc = "building"
    /\ script = "sequential"
    /\ i \in running
    /\ results' = Append(results, BuildResult(plan[i], end))
    /\ imageStore' = StoreAfter(imageStore, plan[i], end)
    /\ running' = NextBatch(script, results', Len(plan))
    /\ attempts' = attempts \o Ascending(running')
    /\ IF running' = {}
       THEN bpc' = "exited" /\ bexit' = SummaryExit(results')
       ELSE UNCHANGED <<bpc, bexit>>
    /\ UNCHANGED <<dockerfile, docker>>
    /\ UNCHANGED <<cmd, argv, script, allPatches, gitOk, gitTags, bargv, plan,
                   settled, spc, target, imageToUse, lookups, builds, sexit,
                   tagsFailed, shellRuns, shellEnd>>

\* buildInBatches: the child of entry i ends; when it was the last of its
\* batch, Promise.all resolves, the batch's results are pushed in plan
\* order and the loop spawns the next batch or returns to main's summary
BatchChildEnds(i, end) ==
    /\ bpc = "building"
    /\ script = "batches"
    /\ i \in running
    /\ imageStore' = StoreAfter(imageStore, plan[i], end)
    /\ LET now == [k \in (DOMAIN settled) \cup {i} |->
                      IF k = i THEN BuildResult(plan[i], end) ELSE settled[k]]
       IN  IF running = {i}
           THEN /\ results' = results \o [k \in 1..Cardinality(DOMAIN now) |->
                                              now[Len(results) + k]]
                /\ settled' = <<>>
                /\ running' = NextBatch(script, results', Len(plan))
                /\ attempts' = attempts \o Ascending(running')
                /\ IF running' = {}
                   THEN bpc' = "exited" /\ bexit' = SummaryExit(results')
                   ELSE UNCHANGED <<bpc, bexit>>
           ELSE /\ settled' = now
                /\ running' = running \ {i}
                /\ UNCHANGED <<results, attempts, bpc, bexit>>
    /\ UNCHANGED <<dockerfile, docker>>
    /\ UNCHANGED <<cmd, argv, script, allPatches, gitOk, gitTags, bargv, plan,
                   spc, target, imageToUse, lookups, builds, sexit,
                   tagsFailed, shellRuns, shellEnd>>

-----------------------------------------------------------------------------
(* The shell command (bash.js) *)

NoEntry == [tag |-> <<>>, version |-> <<>>]

\* getLatestTag of bash.js: the first valid version, or null
bashGetLatestTag(tags) ==
    IF Len(getAllValidVersions(tags)) > 0 THEN getAllValidVersions(tags)[1] ELSE NoEntry

\* the argument of the `bun run build` the shell command runs
DelegatedArg(arg) == IF arg # <<>> THEN arg ELSE Latest

\* process.exit(code || 0) of the close handler, process.exit(1) of the
\* error handler
ShellExitStatus(end) ==
    IF end.kind = "error" THEN 1
    ELSE IF end.kind = "signal" THEN 0
    ELSE end.code

\* no version given: fetchTags throws and main().catch exits 1
ShellTagsFail ==
    /\ spc = "fetch"
    /\ fetchTags(gitOk, gitTags).threw
    /\ spc' = "exited"
    /\ sexit' = 1
    /\ tagsFailed' = TRUE
    /\ UNCHANGED <<dockerfile, docker>>
    /\ UNCHANGED <<cmd, argv, script, allPatches, gitOk, gitTags, imageStore, bpc,
                   bargv, plan, results, running, settled, attempts, bexit, target,
                   imageToUse, lookups, builds, shellRuns, shellEnd>>

\* no version given: the latest catalog version becomes the one to look up;
\* without any valid tag the command exits 1
ShellLatest ==
    /\ spc = "fetch"
    /\ ~fetchTags(gitOk, gitTags).threw
    /\ LET latest == bashGetLatestTag(fetchTags(gitOk, gitTags).tags)
       IN  IF latest = NoEntry
           THEN spc' = "exited" /\ sexit' = 1 /\ UNCHANGED target
           ELSE spc' = "lookup1" /\ target' = latest.version /\ UNCHANGED sexit
    /\ UNCHANGED <<dockerfile, docker>>
    /\ UNCHANGED <<cmd, argv, script, allPatches, gitOk, gitTags, imageStore, bpc,
                   bargv, plan, results, running, settled, attempts, bexit,
                   imageToUse, lookups, builds, tagsFailed, shellRuns, shellEnd>>

\* the record the model keeps of one lookup
Lookup(listed, store, img) ==
    [found |-> img, listed |-> listed, lines |-> Len(ListImages(store))]

\* the first findImageForVersion returns: the image is run, or the build
\* command is started with execSync; an error thrown by the lookup would
\* reach main().catch, which exits 1
ShellLookup1(listed) ==
    /\ spc = "lookup1"
    /\ LET img == findImageForVersion(listed, imageStore, target)
       IN  /\ lookups' = Append(lookups, Lookup(listed, imageStore, img))
           /\ IF img = Thrown
              THEN /\ spc' = "exited"
                   /\ sexit' = 1
                   /\ UNCHANGED <<imageToUse, shellRuns, bpc, bargv, builds>>
              ELSE IF img # NoImage
              THEN /\ spc' = "shell"
                   /\ imageToUse' = img
                   /\ shellRuns' = shellRuns + 1
                   /\ UNCHANGED <<bpc, bargv, builds, sexit>>
              ELSE /\ spc' = "building"
                   /\ imageToUse' = img
                   /\ bpc' = "fetch"
                   /\ bargv' = DelegatedArg(argv)
                   /\ builds' = builds + 1
                   /\ UNCHANGED <<shellRuns, sexit>>
    /\ UNCHANGED <<dockerfile, docker>>
    /\ UNCHANGED <<cmd, argv, script, allPatches, gitOk, gitTags, imageStore,
                   plan, results, running, settled, attempts, bexit, target,
                   tagsFailed, shellEnd>>

\* execSync returns when the build command has exited, and throws when its
\* status is not 0: main().catch exits 1; otherwise the lookup is repeated
ShellBuildReturns ==
    /\ spc = "building"
    /\ bpc = "exited"
    /\ IF bexit # 0
       THEN spc' = "exited" /\ sexit' = 1
       ELSE spc' = "lookup2" /\ UNCHANGED sexit
    /\ UNCHANGED <<dockerfile, docker>>
    /\ UNCHANGED <<cmd, argv, script, allPatches, gitOk, gitTags, imageStore, bpc,
                   bargv, plan, results, running, settled, attempts, bexit, target,
                   imageToUse, lookups, builds, tagsFailed, shellRuns, shellEnd>>

\* the second findImageForVersion returns: the image is run, or the
\* command exits 1 (no image, or an error that reaches main().catch)
ShellLookup2(listed) ==
    /\ spc = "lookup2"
    /\ LET img == findImageForVersion(listed, imageStore, target)
       IN  /\ lookups' = Append(lookups, Lookup(listed, imageStore, img))
           /\ IF img # NoImage /\ img # Thrown
              THEN /\ spc' = "shell"
                   /\ imageToUse' = img
                   /\ shellRuns' = shellRuns + 1
                   /\ UNCHANGED sexit
              ELSE /\ spc' = "exited"
                   /\ sexit' = 1
                   /\ UNCHANGED <<imageToUse, shellRuns>>
    /\ UNCHANGED <<dockerfile, docker>>
    /\ UNCHANGED <<cmd, argv, script, allPatches, gitOk, gitTags, imageStore, bpc,
                   bargv, plan, results, running, settled, attempts, bexit, target,
                   builds, tagsFailed, shellEnd>>

\* the interactive session ends: the close or the error handler exits
ShellSessionEnds(end) ==
    /\ spc = "shell"
    /\ spc' = "exited"
    /\ sexit' = ShellExitStatus(end)
    /\ shellEnd' = end.kind
    /\ UNCHANGED <<dockerfile, docker>>
    /\ UNCHANGED <<cmd, argv, script, allPatches, gitOk, gitTags, imageStore, bpc,
                   bargv, plan, results, running, settled, attempts, bexit, target,
                   imageToUse, lookups, builds, tagsFailed, shellRuns>>

-----------------------------------------------------------------------------
(* The system *)

Init ==
    /\ cmd \in {"build", "bash"}
    /\ argv \in Args
    /\ script \in {"sequential", "batches"}
    /\ allPatches \in BOOLEAN
    /\ allPatches => cmd = "build" /\ script = "sequential"
    /\ gitOk \in BOOLEAN
    /\ gitTags \in SubSeqs(TagMaster, IF cmd = "build" THEN MaxTags ELSE MaxShellTags)
    /\ ~gitOk => gitTags = <<>>
    /\ imageStore \in SubSeqs(ImageMaster, MaxImages)
    /\ cmd = "build" => imageStore = <<>>   \* the build command never reads the store
    /\ bpc = IF cmd = "build" THEN "fetch" ELSE "idle"
    /\ bargv = IF cmd = "build" THEN argv ELSE <<>>
    /\ plan = <<>>
    /\ results = <<>>
    /\ running = {}
    /\ settled = <<>>
    /\ attempts = <<>>
    /\ bexit = -1
    /\ spc = IF cmd = "build" THEN "idle" ELSE IF argv # <<>> THEN "lookup1" ELSE "fetch"
    /\ target = IF cmd = "bash" THEN argv ELSE <<>>
    /\ imageToUse = NoImage
    /\ lookups = <<>>
    /\ builds = 0
    /\ sexit = -1
    /\ tagsFailed = FALSE
    /\ shellRuns = 0
    /\ shellEnd = "none"
    /\ dockerfile = "part_000"
    /\ docker = NoDocker

Next ==
    \/ BuildTagsFail
    \/ BuildNothing
    \/ BuildStart
    \/ \E i \in running, end \in BuildEnds : SeqChildEnds(i, end)
    \/ \E i \in running, end \in BuildEnds : BatchChildEnds(i, end)
    \/ ShellTagsFail
    \/ ShellLatest
    \/ \E listed \in BOOLEAN : ShellLookup1(listed)
    \/ ShellBuildReturns
    \/ \E listed \in BOOLEAN : ShellLookup2(listed)
    \/ \E end \in ChildEnds : ShellSessionEnds(end)

Spec == Init /\ [][Next]_vars

-----------------------------------------------------------------------------
(* The image locator on its own: findImageForVersion applied to any local *)
(* store, in any listing order, with and without a desired version        *)

OtherRepoImage ==
    [repo |-> "benallfree/meshtastic-docker", tag |-> <<"v", "2", ".", "7", ".", "1", "6", "-", "3">>]

ImageUniverse == Range(ImageMaster) \cup {OtherRepoImage}

\* the sequences without repetition of at most max elements of set
Arrangements(set, max) ==
    LET F[n \in 0..max] ==
            IF n = 0 THEN {<<>>}
            ELSE F[n - 1] \cup
                 {Append(q, x) : q \in {r \in F[n - 1] : Len(r) = n - 1},
                                 x \in set} 
    IN  {q \in F[max] : \A i, j \in DOMAIN q : i # j => q[i] # q[j]}

Desired ==
    { <<>>,
      <<"2", ".", "7", ".", "1", "6">>,
      <<"2", ".", "1", "0", ".", "0">> }

LocatorInit ==
    /\ cmd = "locate"
    /\ argv = <<>>
    /\ script = "sequential"
    /\ allPatches = FALSE
    /\ gitOk = TRUE
    /\ gitTags = <<>>
    /\ imageStore \in Arrangements(ImageUniverse, MaxImages)
    /\ bpc = "idle"
    /\ bargv = <<>>
    /\ plan = <<>>
    /\ results = <<>>
    /\ running = {}
    /\ settled = <<>>
    /\ attempts = <<>>
    /\ bexit = -1
    /\ spc = "call"
    /\ target \in Desired
    /\ imageToUse = NoImage
    /\ lookups = <<>>
    /\ builds = 0
    /\ sexit = -1
    /\ tagsFailed = FALSE
    /\ shellRuns = 0
    /\ shellEnd = "none"
    /\ dockerfile = "part_000"
    /\ docker = NoDocker

\* one call of findImageForVersion(target)
Locate(listed) ==
    /\ spc = "call"
    /\ spc' = "returned"
    /\ imageToUse' = findImageForVersion(listed, imageStore, target)
    /\ lookups' = Append(lookups, Lookup(listed, imageStore, imageToUse'))
    /\ UNCHANGED <<dockerfile, docker>>
    /\ UNCHANGED <<cmd, argv, script, allPatches, gitOk, gitTags, imageStore, bpc,
                   bargv, plan, results, running, settled, attempts, bexit, target,
                   builds, sexit, tagsFailed, shellRuns, shellEnd>>

LocatorNext == \E listed \in BOOLEAN : Locate(listed)

SpecLocator == LocatorInit /\ [][LocatorNext]_vars

-----------------------------------------------------------------------------
(* The version catalog and the version selector on their own:               *)
(* getAllValidVersions and main's filteredVersions applied to any tag list, *)
(* in any order, with any filter                                            *)

\* longest tag list handed to the catalog
MaxCatalog == 3

TagUniverse ==
    { <<"v", "2", ".", "1", "0", ".", "0">>,
      <<"v", "2", ".", "7", ".", "1", "6", ".", "a", "5">>,
      <<"v", "2", ".", "7", ".", "1", "6">>,
      <<"v", "2", ".", "7", ".", "1", "6", "-", "r", "c", "1">>,
      <<"2", ".", "7", ".", "1", "5">>,
      <<"v", "2", ".", "6", ".", "1">>,
      <<"v", "2", ".", "0", "6", ".", "2">>,
      <<"n", "i", "g", "h", "t", "l", "y">> }

Filters ==
    { <<>>,
      Latest,
      <<"2", ".", "x">>,
      <<">", "2", ".", "6", ".", "1">>,
      <<">", "2", ".", "7", ".", "1", "6", "-", "a", "l", "p", "h", "a">> }

SelectorInit ==
    /\ cmd = "select"
    /\ argv \in Filters
    /\ script \in {"sequential", "batches"}
    /\ allPatches \in BOOLEAN
    /\ allPatches => script = "sequential"
    /\ gitOk = TRUE
    /\ gitTags \in Arrangements(TagUniverse, MaxCatalog)
    /\ imageStore = <<>>
    /\ bpc = "idle"
    /\ bargv = argv
    /\ plan = <<>>
    /\ results = <<>>
    /\ running = {}
    /\ settled = <<>>
    /\ attempts = <<>>
    /\ bexit = -1
    /\ spc = "call"
    /\ target = <<>>
    /\ imageToUse = NoImage
    /\ lookups = <<>>
    /\ builds = 0
    /\ sexit = -1
    /\ tagsFailed = FALSE
    /\ shellRuns = 0
    /\ shellEnd = "none"
    /\ dockerfile = "part_000"
    /\ docker = NoDocker

\* one call of getAllValidVersions(tags)
ParseValidVersions ==
    /\ spc = "call"
    /\ spc' = "parsed"
    /\ plan' = getAllValidVersions(gitTags)
    /\ UNCHANGED <<dockerfile, docker>>
    /\ UNCHANGED <<cmd, argv, script, allPatches, gitOk, gitTags, imageStore, bpc,
                   bargv, results, running, settled, attempts, bexit, target,
                   imageToUse, lookups, builds, sexit, tagsFailed, shellRuns, shellEnd>>

\* main's computation of filteredVersions from the tags and the options
Select ==
    /\ spc = "call"
    /\ spc' = "selected"
    /\ plan' = SelectVersions(script, bargv, allPatches, gitTags)
    /\ UNCHANGED <<dockerfile, docker>>
    /\ UNCHANGED <<cmd, argv, script, allPatches, gitOk, gitTags, imageStore, bpc,
                   bargv, results, running, settled, attempts, bexit, target,
                   imageToUse, lookups, builds, sexit, tagsFailed, shellRuns, shellEnd>>

SelectorNext == ParseValidVersions \/ Select

SpecSelector == SelectorInit /\ [][SelectorNext]_vars

-----------------------------------------------------------------------------
(* The image build of the sequential build script, looked into: the         *)
(* container runtime executes the Dockerfile of the build context, and the  *)
(* shell executes the and-or list of its dependency-install RUN instruction *)
(* command by command.  "&&" and "||" have the same precedence and group    *)
(* to the left: a command runs when the status so far admits it.            *)

\* longest tag list of a build whose image builds are looked into
MaxBuildTags == 2

Dockerfiles == {"part_000", "Dockerfile", "part_003"}

Cmd(op, c) == [op |-> op, cmd |-> c]

\* the dependency-install RUN of the newest Dockerfile:
\*   if ...; fi && pio pkg install || (... pio pkg install) || (... pio pkg install)
InstallRun_part_000 ==
    << Cmd("", "cleanup"), Cmd("&&", "install"), Cmd("||", "retry"), Cmd("||", "retry") >>

\* the one of the Dockerfile that copies the packages in the same RUN:
\*   pio pkg install || (...) || (...) && mkdir -p ... &&
\*   cp ... || true && cp ... || true && cp ... || true
InstallRun_Dockerfile ==
    << Cmd("", "install"), Cmd("||", "retry"), Cmd("||", "retry"),
       Cmd("&&", "mkdir"),
       Cmd("&&", "cp"), Cmd("||", "true"),
       Cmd("&&", "cp"), Cmd("||", "true"),
       Cmd("&&", "cp"), Cmd("||", "true") >>

\* the one of the oldest Dockerfile:
\*   pio pkg install || (... pio pkg install) || (... pio pkg install)
InstallRun_part_003 ==
    << Cmd("", "install"), Cmd("||", "retry"), Cmd("||", "retry") >>

InstallRun(df) ==
    CASE df = "part_000"   -> InstallRun_part_000
      [] df = "Dockerfile" -> InstallRun_Dockerfile
      [] df = "part_003"   -> InstallRun_part_003

\* instructions follow the dependency-install RUN (in the oldest Dockerfile
\* it is the last one)
HasLaterSteps(df) == df # "part_003"

\* the commands that run pio pkg install: the plain one, and the subshells
\* (echo ... && sleep n && pio pkg install), whose status is the install's
IsInstall(c) == c \in {"install", "retry"}

\* the commands that can exit non-zero: an install, and a cp whose source
\* is missing; the if ... fi, mkdir -p and true exit 0
CanFail(c) == c \in {"install", "retry", "cp"}

\* the and-or list runs command c when the status so far is status
Runs(c, status) ==
    \/ c.op = ""
    \/ c.op = "&&" /\ status = 0
    \/ c.op = "||" /\ status # 0

\* the first command from position pos on that runs, Len(list) + 1 if none
NextToRun(list, pos, status) ==
    LET ks == {k \in pos..Len(list) : Runs(list[k], status)}
    IN  IF ks = {} THEN Len(list) + 1 ELSE CHOOSE k \in ks : \A j \in ks : k <= j

programVars ==
    <<cmd, argv, script, allPatches, gitOk, gitTags, imageStore, bpc, bargv,
      plan, results, running, settled, attempts, bexit, spc, target,
      imageToUse, lookups, builds, sexit, tagsFailed, shellRuns, shellEnd,
      dockerfile>>

ImageBuildInit ==
    /\ cmd = "build"
    /\ argv \in {<<>>, <<"2", ".", "x">>}
    /\ script = "sequential"
    /\ allPatches = FALSE
    /\ gitOk = TRUE
    /\ gitTags \in SubSeqs(TagMaster, MaxBuildTags)
    /\ imageStore = <<>>
    /\ bpc = "fetch"
    /\ bargv = argv
    /\ plan = <<>>
    /\ results = <<>>
    /\ running = {}
    /\ settled = <<>>
    /\ attempts = <<>>
    /\ bexit = -1
    /\ spc = "idle"
    /\ target = <<>>
    /\ imageToUse = NoImage
    /\ lookups = <<>>
    /\ builds = 0
    /\ sexit = -1
    /\ tagsFailed = FALSE
    /\ shellRuns = 0
    /\ shellEnd = "none"
    /\ dockerfile \in Dockerfiles
    /\ docker = NoDocker

\* spawn(CONTAINER_RUNTIME, ['build', ...]): the runtime starts on the
\* Dockerfile for the plan entry the orchestrator has just spawned
DockerStarts(i) ==
    /\ bpc = "building"
    /\ i \in running
    /\ docker.entry # i
    /\ docker' = [entry |-> i, pc |-> "setup", pos |-> 0, status |-> 0,
                  installs |-> <<>>, code |-> -1]
    /\ UNCHANGED programVars

\* the instructions before the dependency install (packages, PlatformIO,
\* the clone of the firmware, its submodules): all succeed, or one fails
\* and the build exits 1
DockerSetup(ok) ==
    /\ docker.pc = "setup"
    /\ docker' = IF ok THEN [docker EXCEPT !.pc = "install", !.pos = 1]
                  ELSE [docker EXCEPT !.pc = "exited", !.code = 1]
    /\ UNCHANGED programVars

\* the shell runs the command at docker.pos, which exits with status st, and
\* moves on to the next command that this status lets run
ShellStep(st) ==
    /\ docker.pc = "install"
    /\ docker.pos <= Len(InstallRun(dockerfile))
    /\ LET list == InstallRun(dockerfile)
           c    == list[docker.pos].cmd
       IN  /\ st # 0 => CanFail(c)
           /\ docker' = [docker EXCEPT
                            !.status   = st,
                            !.installs = IF IsInstall(c) THEN Append(@, st) ELSE @,
                            !.pos      = NextToRun(list, docker.pos + 1, st)]
    /\ UNCHANGED programVars

\* the and-or list is through: a non-zero status fails the RUN and with it
\* the build, status 0 lets the build go on
RunEnds ==
    /\ docker.pc = "install"
    /\ docker.pos > Len(InstallRun(dockerfile))
    /\ docker' = IF docker.status # 0 THEN [docker EXCEPT !.pc = "exited", !.code = 1]
                  ELSE IF HasLaterSteps(dockerfile) THEN [docker EXCEPT !.pc = "rest"]
                  ELSE [docker EXCEPT !.pc = "exited", !.code = 0]
    /\ UNCHANGED programVars

\* the instructions behind the dependency install (the copy out of the
\* cache mounts, pio run): all succeed and the build exits 0, or one fails
\* and it exits 1
DockerRest(ok) ==
    /\ docker.pc = "rest"
    /\ docker' = [docker EXCEPT !.pc = "exited", !.code = IF ok THEN 0 ELSE 1]
    /\ UNCHANGED programVars

\* the close event of the child: buildImage resolves with the exit code of
\* the image build, and buildSequentially goes on
ImageBuildCloses ==
    /\ docker.pc = "exited"
    /\ docker.entry \in running
    /\ SeqChildEnds(docker.entry, [kind |-> "exit", code |-> docker.code])

ImageBuildNext ==
    \/ BuildNothing
    \/ BuildStart
    \/ \E i \in running : DockerStarts(i)
    \/ \E ok \in BOOLEAN : DockerSetup(ok)
    \/ \E st \in {0, 1} : ShellStep(st)
    \/ RunEnds
    \/ \E ok \in BOOLEAN : DockerRest(ok)
    \/ ImageBuildCloses

SpecImageBuild == ImageBuildInit /\ [][ImageBuildNext]_vars

-----------------------------------------------------------------------------
(* Claims *)

\* C1: whatever the outcomes of the builds, the orchestrator spawns the
\* child of every plan entry exactly once and in plan order, and returns
\* one BuildResult per plan entry, in plan order; a failed build does not
\* keep a later entry from being attempted.
C1_EveryEntryOnceInOrder ==
    /\ attempts = [k \in 1..Len(attempts) |-> k]
    /\ Len(results) <= Len(attempts)
    /\ Len(attempts) <= Len(plan)
    /\ \A i \in DOMAIN results :
          /\ results[i].version = plan[i].version
          /\ results[i].imageTag = ImageTag(plan[i].version, BUILD_NUM)
    /\ (bpc = "exited" /\ plan # <<>>) =>
          Len(attempts) = Len(plan) /\ Len(results) = Len(plan)

\* a plan of three entries whose second build failed and whose third build
\* was made all the same
C1_Witness ==
    /\ bpc = "exited"
    /\ Len(plan) = 3
    /\ Len(results) = 3
    /\ results[1].success /\ ~results[2].success /\ results[3].success
    /\ attempts = <<1, 2, 3>>

\* C2: the builds of one plan are strictly sequential: at most one child
\* process of the image build is alive, so that entry i+1 is spawned only
\* after the child of entry i has ended.
C2_AtMostOneChild == Cardinality(running) <= 1

\* C3: with the tags listed, the build command exits non-zero exactly when
\* a planned build failed, it exits only after every planned build has been
\* attempted, and it exits 0 when all builds succeeded.
C3_ExitStatus ==
    /\ bpc # "exited" => bexit = -1
    /\ (bpc = "exited" /\ gitOk) =>
          /\ bexit \in {0, 1}
          /\ bexit # 0 <=> \E i \in DOMAIN results : ~results[i].success
          /\ Len(results) = Len(plan)
          /\ Len(attempts) = Len(plan)

\* the first of two builds failed, the second succeeded, the command exited 1
C3_Witness ==
    /\ bpc = "exited"
    /\ gitOk
    /\ Len(results) >= 2
    /\ ~results[1].success
    /\ results[Len(results)].success
    /\ bexit = 1

\* C4: in the shell command, a first lookup that finds no image is followed
\* by exactly one build command and then by exactly one more lookup; when
\* that one finds no image either the command exits non-zero without
\* running a shell; a first lookup that finds an image triggers no build.
C4_OneBuildThenSecondLookup ==
    (cmd = "bash" /\ spc = "exited" /\ lookups # <<>>) =>
        IF lookups[1].found = NoImage
        THEN /\ builds = 1
             /\ Len(lookups) = 2
             /\ lookups[2].found = NoImage => (sexit # 0 /\ shellRuns = 0)
        ELSE builds = 0 /\ Len(lookups) = 1

\* C5: the build command the shell command delegates to plans, and
\* attempts, at most one version, whatever argument the user gave and
\* whatever the tag catalog holds.
C5_DelegatedBuildSingleEntry ==
    cmd = "bash" => (Len(plan) <= 1 /\ Len(attempts) <= 1)

\* C6: a build, or an interactive session, whose child process is ended by
\* a signal (its close event carries no exit code) makes the command exit
\* with a non-zero status.
C6_InterruptExitsNonZero ==
    /\ (cmd = "bash" /\ spc = "exited" /\ shellEnd = "signal") => sexit # 0
    /\ (cmd = "build" /\ bpc = "exited"
          /\ \E i \in DOMAIN results : results[i].error = "Exit code: null") => bexit # 0

\* the parsed image q ranks above p: a higher version, or the same version
\* and a higher build number
RanksAbove(q, p) ==
    /\ semverValid(q.version) /\ semverValid(p.version)
    /\ \/ semverCompare(q.version, p.version) > 0
       \/ semverCompare(q.version, p.version) = 0 /\ q.buildNum > p.buildNum

Parsed(store) == Range(ParsedImages(store))

\* C7: the shell command run without a version opens the latest built
\* image: when the local store lists a matching image, no build is
\* triggered and the image run is the one with the highest (version, build
\* number), whatever the tag catalog holds.  (Stated for a listing that
\* succeeded and whose matching tags all carry valid versions.)
C7_LatestBuiltImage ==
    (cmd = "bash" /\ argv = <<>> /\ Len(lookups) = 1 /\ lookups[1].listed
       /\ \A p \in Parsed(imageStore) : semverValid(p.version)) =>
        /\ (spc = "building" /\ bpc = "fetch") => Parsed(imageStore) = {}
        /\ spc = "shell" =>
              \E p \in Parsed(imageStore) :
                  /\ p.image = imageToUse
                  /\ \A q \in Parsed(imageStore) : ~RanksAbove(q, p)

\* C8: for every local store, findImageForVersion ignores the tags that do
\* not match <repo>:v<version>-<buildNumber>; with a desired version it
\* returns an image of exactly that version with the highest build number
\* among them, or none when there is no such image; without one it returns
\* an image that no other one ranks above, or none when no tag matches.
C8_LocatorResult ==
    (cmd = "locate" /\ spc = "returned" /\ lookups[1].listed) =>
        LET cands == IF target # <<>>
                     THEN {p \in Parsed(imageStore) : p.version = target}
                     ELSE Parsed(imageStore)
        IN  IF cands = {} THEN imageToUse = NoImage
            ELSE \E p \in cands :
                    /\ p.image = imageToUse
                    /\ \A q \in cands :
                          IF target # <<>> THEN q.buildNum <= p.buildNum
                          ELSE ~RanksAbove(q, p)

\* a lookup whose listing failed or listed nothing
NothingListed(l) == ~l.listed \/ l.lines = 0

\* C9: the image locator raises no error: on a failing or an empty listing
\* it returns none, and the shell command then goes on as for "no image
\* found": it starts the build command instead of exiting.
C9_LocatorNeverRaises ==
    /\ \A k \in DOMAIN lookups : NothingListed(lookups[k]) => lookups[k].found = NoImage
    /\ (cmd = "bash" /\ lookups # <<>> /\ NothingListed(lookups[1])) => builds = 1
    /\ (cmd = "bash" /\ Len(lookups) = 1 /\ NothingListed(lookups[1]) /\ bpc # "exited") =>
          (spc = "building" /\ sexit = -1)

\* the listing failed although the store holds the wanted image, and the
\* build command was started
C9_Witness ==
    /\ cmd = "bash"
    /\ Len(lookups) = 1
    /\ ~lookups[1].listed
    /\ lookups[1].lines > 0
    /\ spc = "building"
    /\ bpc = "fetch"
    /\ builds = 1

\* C10: when git cannot list the tags, the command that asked for them
\* reports the error and exits non-zero, no image build is spawned and no
\* shell is run; the failure never ends as the clean exit of an empty tag
\* list.
C10_SourceUnavailable ==
    /\ (~gitOk /\ bpc = "exited") => (tagsFailed /\ bexit # 0)
    /\ (~gitOk /\ cmd = "bash" /\ argv = <<>> /\ spc = "exited") => (tagsFailed /\ sexit # 0)
    /\ (tagsFailed /\ spc = "exited") => sexit # 0
    /\ tagsFailed => (attempts = <<>> /\ shellRuns = 0 /\ plan = <<>>)

\* the build command the shell command delegated to could not list the
\* tags, and the shell command has exited 1
C10_Witness ==
    /\ cmd = "bash"
    /\ tagsFailed
    /\ builds = 1
    /\ bpc = "exited" /\ bexit = 1
    /\ spc = "exited" /\ sexit = 1

\* no tag of the list yields a valid version that the filter accepts
NoCatalogMatch(arg, tags) ==
    \A i \in DOMAIN tags :
        LET v == ExtractVersion(tags[i]).version
        IN  \/ ~semverValid(v)
            \/ DelegatedArg(arg) # Latest /\ ~semverSatisfies(v, arg)

\* C11: when the tag list is empty, or no catalog entry matches the filter,
\* the build command spawns no image build at all and exits with status 0.
C11_NoMatchBuildsNothing ==
    (gitOk /\ bpc # "idle" /\ NoCatalogMatch(bargv, gitTags)) =>
        /\ attempts = <<>> /\ running = {} /\ results = <<>> /\ plan = <<>>
        /\ bpc = "exited" => bexit = 0

\* the catalog holds valid versions, none of them satisfies the range, and
\* the build command has exited 0 without a build
C11_Witness ==
    /\ cmd = "build"
    /\ bpc = "exited"
    /\ bargv # <<>>
    /\ \E i \in DOMAIN gitTags : semverValid(ExtractVersion(gitTags[i]).version)
    /\ NoCatalogMatch(bargv, gitTags)
    /\ attempts = <<>>
    /\ bexit = 0

\* the indices of the tags whose extracted version is valid
ValidTagIndices(tags) ==
    {i \in DOMAIN tags : semverValid(ExtractVersion(tags[i]).version)}

\* C12 (as stated): the output of getAllValidVersions is sorted strictly
\* descending by semantic-version precedence, and every entry's version is a
\* valid semantic version.
C12_StrictlyDescending ==
    (cmd = "select" /\ spc = "parsed") =>
        /\ \A i \in DOMAIN plan : semverValid(plan[i].version)
        /\ \A i \in 1..(Len(plan) - 1) :
              semverCompare(plan[i].version, plan[i + 1].version) > 0

\* C12 (amended): the output of getAllValidVersions is sorted descending by
\* semantic-version precedence, no entry being below a later one and two
\* entries being equal only when distinct tags yield the same version;
\* every entry's version is a valid semantic version, every entry is the
\* extraction of a tag of the list, and every tag with a valid version has
\* its entry.
C12_Descending ==
    (cmd = "select" /\ spc = "parsed") =>
        /\ \A i \in DOMAIN plan : semverValid(plan[i].version)
        /\ \A i, j \in DOMAIN plan :
              i < j => /\ semverCompare(plan[i].version, plan[j].version) >= 0
                       /\ plan[i].tag # plan[j].tag
        /\ \A i \in DOMAIN plan :
              \E k \in DOMAIN gitTags : plan[i] = ExtractVersion(gitTags[k])
        /\ Len(plan) = Cardinality(ValidTagIndices(gitTags))

\* a list that starts with its oldest version and holds two tags of the same
\* version: the output is reordered, and its first two versions are equal
C12_Witness ==
    /\ cmd = "select" /\ spc = "parsed"
    /\ Len(gitTags) = 3
    /\ Len(plan) = 3
    /\ semverCompare(plan[1].version, plan[2].version) = 0
    /\ semverCompare(plan[2].version, plan[3].version) > 0
    /\ plan[3].tag = gitTags[1]

\* C13: when several tags of the list yield the same version,
\* getAllValidVersions keeps an entry for each of them, and these entries
\* stand in the output in the order their tags have in the list.
C13_TiesKeptInInputOrder ==
    (cmd = "select" /\ spc = "parsed") =>
        LET PlanIndex(k) == CHOOSE i \in DOMAIN plan : plan[i].tag = gitTags[k]
        IN  /\ \A k \in ValidTagIndices(gitTags) :
                  \E i \in DOMAIN plan : plan[i] = ExtractVersion(gitTags[k])
            /\ \A k, l \in ValidTagIndices(gitTags) :
                  (k < l /\ ExtractVersion(gitTags[k]).version
                              = ExtractVersion(gitTags[l]).version)
                      => PlanIndex(k) < PlanIndex(l)

\* two tags of the same version come behind an older one in the list, the
\* one with the suffix first: the output has them first, in that order
C13_Witness ==
    /\ cmd = "select" /\ spc = "parsed"
    /\ Len(gitTags) = 3 /\ Len(plan) = 3
    /\ plan[1].version = plan[2].version
    /\ plan[1].tag # plan[1].version /\ Len(plan[1].tag) > Len(plan[2].tag)
    /\ plan[1].tag = gitTags[2]
    /\ plan[2].tag = gitTags[3]
    /\ plan[3].tag = gitTags[1]

\* the indices of the tags whose extracted version is valid and in the range
MatchingTagIndices(tags, range) ==
    {k \in ValidTagIndices(tags) :
        semverSatisfies(ExtractVersion(tags[k]).version, range)}

\* C14: with a range filter and without --all-patches, the plan of the
\* script that has the latest-patch-per-minor policy holds at most one entry
\* per (major, minor) pair; that entry is a range-matching catalog entry
\* that no other matching entry of the pair is above; every pair with a
\* matching entry has its entry; and the plan is in descending order.
C14_LatestPatchPerMinor ==
    (cmd = "select" /\ spc = "selected" /\ script = "sequential" /\ ~allPatches
       /\ DelegatedArg(bargv) # Latest) =>
        LET M    == MatchingTagIndices(gitTags, bargv)
            E(k) == ExtractVersion(gitTags[k])
        IN  /\ \A i, j \in DOMAIN plan :
                  i < j => /\ MinorKey(plan[i].version) # MinorKey(plan[j].version)
                           /\ semverCompare(plan[i].version, plan[j].version) > 0
            /\ \A i \in DOMAIN plan :
                  /\ \E k \in M : plan[i] = E(k)
                  /\ \A l \in M :
                        MinorKey(E(l).version) = MinorKey(plan[i].version)
                            => semverCompare(plan[i].version, E(l).version) >= 0
            /\ \A k \in M :
                  \E i \in DOMAIN plan :
                      MinorKey(plan[i].version) = MinorKey(E(k).version)

\* three matching tags, the two oldest of the same minor and listed before
\* the newest: the plan holds the newest and the higher patch of the two
C14_Witness ==
    /\ cmd = "select" /\ spc = "selected" /\ script = "sequential" /\ ~allPatches
    /\ DelegatedArg(bargv) # Latest
    /\ Cardinality(MatchingTagIndices(gitTags, bargv)) = 3
    /\ Len(plan) = 2
    /\ plan[1].tag = gitTags[3]
    /\ plan[2].tag = gitTags[2]
    /\ MinorKey(ExtractVersion(gitTags[1]).version) = MinorKey(plan[2].version)
    /\ semverCompare(plan[2].version, ExtractVersion(gitTags[1]).version) > 0

\* C15: with the filter "latest" (given or by default) the plan has at most
\* one entry: it is empty when no tag yields a valid version, and otherwise
\* it is the one entry of a tag whose version no valid version of the list
\* is above.
C15_LatestPlan ==
    (cmd = "select" /\ spc = "selected" /\ DelegatedArg(bargv) = Latest) =>
        LET V    == ValidTagIndices(gitTags)
            E(k) == ExtractVersion(gitTags[k])
        IN  /\ Len(plan) <= 1
            /\ plan = <<>> <=> V = {}
            /\ plan # <<>> =>
                  /\ \E k \in V : plan[1] = E(k)
                  /\ \A l \in V : semverCompare(plan[1].version, E(l).version) >= 0

\* three valid tags in ascending order: the plan is the entry of the last
C15_Witness ==
    /\ cmd = "select" /\ spc = "selected" /\ DelegatedArg(bargv) = Latest
    /\ Cardinality(ValidTagIndices(gitTags)) = 3
    /\ Len(plan) = 1
    /\ plan[1].tag = gitTags[3]
    /\ semverCompare(plan[1].version, ExtractVersion(gitTags[2]).version) > 0
    /\ semverCompare(ExtractVersion(gitTags[2]).version,
                     ExtractVersion(gitTags[1]).version) > 0

\* C16: the image a successful build is tagged with, <repository>:v<V>-<N>,
\* is one the image locator lists, it parses back to exactly (V, N), and
\* the locator finds an image of version V; hence the second lookup of the
\* shell command, after a successful build of the wanted version, finds an
\* image.  (Stated for a listing that succeeded and a store whose matching
\* tags all carry valid versions.)
C16_BuildThenLocate ==
    (\A p \in Parsed(imageStore) : semverValid(p.version)) =>
        /\ \A i \in DOMAIN results :
              results[i].success =>
                  LET img == FullTag(script, results[i].version, BUILD_NUM)
                  IN  /\ \E k \in DOMAIN ListImages(imageStore) :
                            ListImages(imageStore)[k] = img
                      /\ ParseImageLine(img).version = results[i].version
                      /\ ParseImageLine(img).buildNum = BUILD_NUM
                      /\ LET found == findImageForVersion(TRUE, imageStore,
                                                          results[i].version)
                         IN  /\ found # NoImage
                             /\ ParseImageLine(found).version = results[i].version
        /\ (cmd = "bash" /\ Len(lookups) = 2 /\ lookups[2].listed
              /\ \E i \in DOMAIN results :
                    results[i].success /\ results[i].version = target)
                => lookups[2].found # NoImage

\* every install attempt of the image build so far has failed, and there
\* were three of them
AllThreeFailed == Len(docker.installs) = 3 /\ \A k \in 1..3 : docker.installs[k] # 0

\* C17: the dependency-install step of the image build runs the package
\* install at most three times, one after the other, and not again once an
\* attempt has succeeded; when all three attempts fail the image build
\* fails, and the orchestrator records success = false for the entry; the
\* orchestrator spawns no second build for a plan entry.
C17_RetriesInsideInstallStep ==
    /\ Len(docker.installs) <= 3
    /\ \A k \in 1..(Len(docker.installs) - 1) : docker.installs[k] # 0
    /\ (docker.pc = "exited" /\ AllThreeFailed) => docker.code # 0
    /\ (docker.pc = "exited" /\ AllThreeFailed /\ docker.entry \in DOMAIN results) =>
          ~results[docker.entry].success
    /\ \A i, j \in DOMAIN attempts : i # j => attempts[i] # attempts[j]

====
